---------------------------- MODULE Spec2Model ----------------------------
(***************************************************************************)
(* A model of openifs-scmtiles:                                            *)
(*   - SCMTileRunner.run_cell (src/openifs_scm.py), driven over the cells   *)
(*     of a tile one after the other                        (Spec)         *)
(*   - pp_tile (src/openifs_pp_main.py), the assembly of one tile (SpecTile)*)
(*   - post_process / main (src/openifs_pp_main.py)          (SpecPP)      *)
(*   - SCMTileRunner._time_to_ifs (src/openifs_scm.py) followed by the time *)
(*     rebase of post_process                                (SpecTime)    *)
(*   - the names archive_results and run_openifs_scm write under            *)
(*     (src/openifs_scm.py), for two cells of a job          (SpecNames)   *)
(*   - JobInfo.from_name_and_id (src/u_collect.py), the status of one job   *)
(*     of a job array                                        (SpecJob)     *)
(*   - parse_array_spec (src/u_collect.py)                   (SpecArray)   *)
(* Python exceptions are values: a step that raises stores the exception   *)
(* class in exc, and the enclosing except/finally clauses act on it.       *)
(***************************************************************************)
EXTENDS Integers, Sequences, FiniteSets, TLC

VARIABLES
    \* ---- SCMTileRunner (openifs_scm.py) ----
    archive_failed_runs, \* self.archive_failed_runs
    ncells,              \* number of cells of the tile being run
    cell,                \* index of the cell run_cell is working on (0: none yet)
    pc,                  \* position of the runner
    run_directory,       \* run_cell's local: "unbound" or "bound"
    run_successful,      \* run_cell's local: "unbound", "true", "false"
    cell_result,         \* run_cell's local: "unbound", "positive", "negative"
    command_result,      \* run_openifs_scm's local: unbound, or the process's result
    exc,                 \* exception in flight ("none" if none)
    kind,                \* which raise statement built the exception in flight
    logged,              \* diagnostic of logger.error in run_cell ("none" if none)
    launched,            \* what subprocess.run did for this cell
    model_output,        \* state of each expected file after the model ran
    staged,              \* outcome of the staging of this cell
    relocation,          \* outcome of shutil.move(run_directory, archive_directory)
    dumped,              \* stdout.txt and stderr.txt were written in full
    dirloc,              \* per cell: where its run directory is
    archived,            \* per cell: output files present in the output directory
    results,             \* per cell: what run_cell gave the tile loop
    output_files,        \* run_cell's local: the list archive_results returned
    archive_error,       \* what the failing shutil.move of archive_results raised
    stages,              \* history: the stages run_cell entered for this cell
    \* ---- pp_tile (openifs_pp_main.py) ----
    tile_nx, tile_ny,    \* extent of the tile handed to pp_tile
    tpc,                 \* position of pp_tile
    remaining,           \* cells tile.cells() has still to yield
    grid_rows,           \* the OrderedDict: sequence of [key, row]
    tile_ds,             \* the tile dataset (sequence of rows)
    in_order,            \* history: the cells came so far in ascending order
    \* ---- post_process / main (openifs_pp_main.py) ----
    xsize, ysize,        \* config.xsize, config.ysize
    row_height,          \* rows per tile of the decomposition
    xcoord, ycoord,      \* coordinate templates: index -> coordinate value
    delete_cell_files,   \* the -d flag
    unreadable,          \* cells whose output files cannot be opened
    ppc,                 \* position of post_process / main
    pending,             \* tiles dispatched and not yet returned
    pp_results,          \* tile results in the order they came back
    pp_exc,              \* exception in flight in post_process
    dataset,             \* the concatenated grid (sequence of rows)
    rebased,             \* number of times base_time was added to time
    cell_time,           \* dtype of the time coordinate in the cells' files
    time_kind,           \* dtype of the grid's time coordinate ("none": no grid)
    written,             \* the final grid file is on disk
    write_outcome,       \* what to_netcdf did
    deleted,             \* per-cell directories removed by post_process
    exit_status,         \* main's return value (-1: still running)
    \* ---- the job ----
    start_time,          \* config.start_time: a datetime, to the second
    \* ---- the time coordinate (_time_to_ifs, post_process) ----
    time_in,             \* the forcing's time coordinate, in ticks since the
                         \* midnight of the reference date
    tmc,                 \* position: "input", "ifs", "rebased"
    time_coord,          \* 'time' after _time_to_ifs, in seconds
    date_coord,          \* 'date' after _time_to_ifs
    second_coord,        \* 'second' after _time_to_ifs
    time_out,            \* 'time' of the final grid after the rebase, in
                         \* seconds since the midnight of the reference date
    \* ---- the names two cells of a job write under (openifs_scm.py) ----
    name_cells,          \* the two cells, each [x, y] (global indices)
    name_written,        \* per cell: the paths it wrote in output_directory
    \* ---- the status of one job of a job array (u_collect.py) ----
    jid,                 \* the job's index in the array
    pp_only,             \* from_name_and_id's pp_only
    run_log,             \* state of logs/<name>_run.<jid>.log
    pp_log,              \* state of logs/<name>_pp.<jid>.log
    scm_out,             \* dates whose scm_out.<date>.nc is in data/scm_out
    jpc,                 \* position: "idle", "call", "done"
    job_ret,             \* what from_name_and_id returned: "None", "JobInfo"
    job_info,            \* the JobInfo from_name_and_id built
    job_exc,             \* exception from_name_and_id raised ("none" if none)
    \* ---- the job array specification (u_collect.py) ----
    array_spec,          \* the specification, a string
    apc,                 \* position: "idle", "call", "done"
    job_ids,             \* the list parse_array_spec returned
    array_exc            \* exception parse_array_spec raised ("none" if none)

runVars == <<archive_failed_runs, ncells, cell, pc, run_directory, run_successful,
             cell_result, command_result, exc, kind, logged, launched,
             model_output, staged, relocation, dumped, dirloc, archived, results,
             output_files, archive_error, stages>>
tileVars == <<tile_nx, tile_ny, tpc, remaining, grid_rows, tile_ds, in_order>>
ppVars == <<xsize, ysize, row_height, xcoord, ycoord, delete_cell_files,
            unreadable, ppc,
            pending, pp_results, pp_exc, dataset, rebased, written,
            write_outcome, deleted, exit_status, cell_time, time_kind>>
timeVars == <<time_in, tmc, time_coord, date_coord, second_coord, time_out>>
nameVars == <<name_cells, name_written>>
jobVars == <<jid, pp_only, run_log, pp_log, scm_out, jpc, job_ret, job_info,
             job_exc>>
arrayVars == <<array_spec, apc, job_ids, array_exc>>
collectVars == <<jobVars, arrayVars>>
vars == <<runVars, tileVars, ppVars, timeVars, nameVars, collectVars, start_time>>
\* what the actions of each part leave alone
notRunVars == <<tileVars, ppVars, timeVars, nameVars, collectVars, start_time>>
notTileVars == <<runVars, ppVars, timeVars, nameVars, collectVars, start_time>>
notPPVars == <<runVars, tileVars, timeVars, nameVars, collectVars, start_time>>
notTimeVars == <<runVars, tileVars, ppVars, nameVars, collectVars, start_time>>
notNameVars == <<runVars, tileVars, ppVars, timeVars, collectVars, start_time>>
notJobVars == <<runVars, tileVars, ppVars, timeVars, nameVars, arrayVars,
                start_time>>
notArrayVars == <<runVars, tileVars, ppVars, timeVars, nameVars, jobVars,
                  start_time>>

---------------------------------------------------------------------------
(* Bounds of the model *)

\* largest number of cells in the tile handed to the runner
MaxCells == 2
\* resolution of the forcing's time values: ticks in a second
TicksPerSecond == 4
\* largest number of points on the forcing's time coordinate
MaxTimes == 2
\* the time points lie from MaxEarly ticks before the reference time to
\* MaxLate ticks after it
MaxEarly == 2
MaxLate == 6
\* largest number of expected files the model leaves missing or empty
MaxBadFiles == 1
\* largest grid extent along x and along y handed to post_process
MaxX == 2
MaxY == 3
\* largest tile extent along x and along y handed to pp_tile
MaxTileX == 2
MaxTileY == 2
\* largest number of cells whose output files cannot be read
MaxUnreadable == 1
\* largest index of a job in the job array
MaxJobId == 3
\* largest number of characters of a job array specification
MaxSpecLen == 5
\* largest number of digits of a job index in a job array specification
MaxDigits == 2

---------------------------------------------------------------------------
(* Python's exception classes, as far as the except clauses tell them apart *)

Parent(e) ==
    CASE e = "PermissionError"    -> "OSError"
      [] e = "FileNotFoundError"  -> "OSError"
      [] e = "OSError"            -> "Exception"
      [] e = "SCMError"           -> "TileRunError"
      [] e = "TileRunError"       -> "Exception"
      [] e = "UnboundLocalError"  -> "NameError"
      [] e = "NameError"          -> "Exception"
      [] e = "RuntimeError"       -> "Exception"
      [] e = "Error"              -> "Exception"
      [] e = "TypeError"          -> "Exception"
      [] e = "Usage"              -> "Exception"
      [] e = "ValueError"         -> "Exception"
      [] OTHER                    -> "none"

RECURSIVE IsInstance(_, _)
IsInstance(e, cls) ==
    IF e = "none" THEN FALSE
    ELSE IF e = cls THEN TRUE
    ELSE IF e = "Exception" THEN FALSE
    ELSE IsInstance(Parent(e), cls)

\* index of the first except clause that catches e (0: none does)
FirstClause(e, clauses) ==
    IF \E i \in 1..Len(clauses) : IsInstance(e, clauses[i])
    THEN CHOOSE i \in 1..Len(clauses) :
            /\ IsInstance(e, clauses[i])
            /\ \A j \in 1..(i-1) : ~IsInstance(e, clauses[j])
    ELSE 0


---------------------------------------------------------------------------
(* SCMTileRunner: the files and the outcomes of the environment *)

\* _check_for_run_failures' expected_files, in the order they are checked
expected_files == <<"onecol.r", "progvar.nc", "diagvar.nc", "diagvar2.nc">>
\* archive_results' archive_files, in the order they are moved
archive_files == <<"diagvar.nc", "diagvar2.nc", "progvar.nc">>

Range(s) == {s[i] : i \in 1..Len(s)}

\* Names and paths are strings: sequences of characters.
DigitChars == <<"0", "1", "2", "3", "4", "5", "6", "7", "8", "9">>

\* str(n) of a natural number
RECURSIVE Decimal(_)
Decimal(n) ==
    IF n < 10 THEN <<DigitChars[n + 1]>>
    ELSE Decimal(n \div 10) \o <<DigitChars[(n % 10) + 1]>>

\* the format '{:0wd}' of a natural number: zeros to the left up to the
\* width w, and every digit of a wider number
RECURSIVE ZeroPad(_, _)
ZeroPad(str, w) == IF Len(str) >= w THEN str ELSE ZeroPad(<<"0">> \o str, w)

\* start_time.strftime('%Y%m%d_%H%M%S'), for a year of four digits
date_id(st) ==
    ZeroPad(Decimal(st.year), 4) \o ZeroPad(Decimal(st.month), 2)
        \o ZeroPad(Decimal(st.day), 2) \o <<"_">>
        \o ZeroPad(Decimal(st.hour), 2) \o ZeroPad(Decimal(st.minute), 2)
        \o ZeroPad(Decimal(st.second), 2)

\* the cell id with the column index in both places
cell_id_x_twice(c) ==
    <<"y">> \o ZeroPad(Decimal(c.x), 4) \o <<"x">> \o ZeroPad(Decimal(c.x), 4)

\* lines 167 and 199: 'y{:04d}x{:04d}'.format(cell.y_global, cell.x_global)
cell_id(c) ==
    <<"y">> \o ZeroPad(Decimal(c.y), 4) \o <<"x">> \o ZeroPad(Decimal(c.x), 4)

\* os.path.splitext of the archived files
splitext(af) ==
    CASE af = "diagvar.nc" ->
            [name |-> <<"d", "i", "a", "g", "v", "a", "r">>,
             ext  |-> <<".", "n", "c">>]
      [] af = "diagvar2.nc" ->
            [name |-> <<"d", "i", "a", "g", "v", "a", "r", "2">>,
             ext  |-> <<".", "n", "c">>]
      [] af = "progvar.nc" ->
            [name |-> <<"p", "r", "o", "g", "v", "a", "r">>,
             ext  |-> <<".", "n", "c">>]

\* archive_results lines 204-206: '{}.{}.{}{}'.format(af_name, date_id,
\* cell_id, af_ext), the name of the target in output_directory
target_name(af, st, c) ==
    splitext(af).name \o <<".">> \o date_id(st) \o <<".">> \o cell_id(c)
        \o splitext(af).ext

\* run_openifs_scm line 168: 'failed.{}.{}'.format(date_id, cell_id), the
\* name of the failed run's directory in output_directory
archive_name(st, c) ==
    <<"f", "a", "i", "l", "e", "d", ".">> \o date_id(st) \o <<".">> \o cell_id(c)

NoOutput == [f \in Range(expected_files) |-> "missing"]

\* what the model process can leave behind: each expected file is written
\* ("ok"), written with length zero ("empty") or not written ("missing")
ModelOutputs ==
    {o \in [Range(expected_files) -> {"ok", "empty", "missing"}] :
        Cardinality({f \in Range(expected_files) : o[f] # "ok"}) <= MaxBadFiles}

\* subprocess.run: the process ran, or the launch raised
LaunchOutcomes == {"ran", "FileNotFoundError", "PermissionError", "OSError"}
ExitCodes == {0, 1}
\* staging: all three steps worked, or one of them raised
StageOutcomes == {"ok", "create_failed", "link_failed", "write_failed"}
\* shutil.move: done, or one of the errors the callers name, or another
\* OSError (a full disk, a destination that is in the way)
MoveOutcomes == {"ok", "PermissionError", "FileNotFoundError", "OSError"}

\* the start times of the jobs: datetimes at, and a little after, the
\* midnight of a date, and one at the last second of a year
StartTimes ==
    { [year |-> 2016, month |-> 1, day |-> 5,
       hour |-> 0, minute |-> 0, second |-> s] : s \in 0..1 }
    \cup { [year |-> 1999, month |-> 12, day |-> 31,
            hour |-> 23, minute |-> 59, second |-> 59] }

\* the cells of the rows y0..y1 in the order tile.cells() yields them:
\* row by row, and by column within a row
RECURSIVE RowMajor(_, _, _, _)
RowMajor(nx, y0, y1, x) ==
    IF y0 > y1 THEN <<>>
    ELSE IF x >= nx THEN RowMajor(nx, y0 + 1, y1, 0)
    ELSE <<[x |-> x, y |-> y0]>> \o RowMajor(nx, y0, y1, x + 1)

Cells == 1..ncells

\* the i-th cell of the tile handed to the runner: a band of one row
CellAt(i) == RowMajor(ncells, 0, 0, 0)[i]

---------------------------------------------------------------------------
(* SCMTileRunner: the methods *)

\* setup_openifs_scm: create_run_directory, link_template, write_scm_input.
\* The first two are inherited from scmtiles' TileRunner and raise
\* TileRunError when they fail (the class run_cell catches for them);
\* to_netcdf's I/O error is raised as it is. The directory exists once
\* create_run_directory returned, whatever follows.
setup_openifs_scm(outcome) ==
    [exc     |-> CASE outcome = "ok"            -> "none"
                   [] outcome = "create_failed" -> "TileRunError"
                   [] outcome = "link_failed"   -> "TileRunError"
                   [] outcome = "write_failed"  -> "OSError",
     kind    |-> IF outcome = "ok" THEN "none" ELSE outcome,
     created |-> outcome # "create_failed"]

\* _scm_runner: subprocess.run under three except clauses, tried in order
scm_runner_clauses == <<"FileNotFoundError", "OSError", "PermissionError">>
scm_runner_kinds == <<"not_found", "launch_failed", "not_executable">>

\* a local that was never assigned, and one holding a CompletedProcess
Unbound == [bound |-> FALSE, returncode |-> 0]
Completed(rc) == [bound |-> TRUE, returncode |-> rc]

scm_runner(launch, rc) ==
    IF launch = "ran"
    THEN [exc |-> "none", kind |-> "none", command_result |-> Completed(rc)]
    ELSE LET i == FirstClause(launch, scm_runner_clauses)
         IN  IF i = 0
             THEN [exc |-> launch, kind |-> "none", command_result |-> Unbound]
             ELSE [exc |-> "SCMError", kind |-> scm_runner_kinds[i],
                   command_result |-> Unbound]

\* _check_for_run_failures: the first expected file missing or empty raises
check_for_run_failures(out) ==
    IF \E i \in 1..Len(expected_files) : out[expected_files[i]] # "ok"
    THEN [exc |-> "SCMError", kind |-> "verify"]
    ELSE [exc |-> "none", kind |-> "none"]

\* the try block of run_openifs_scm (lines 146-150); msg.format(exit_code)
\* names a variable that does not exist, so a nonzero status raises
\* NameError before SCMError is built
\* the try block without the test of the exit status
run_try_status_ignored(launch, rc, out) ==
    LET r == scm_runner(launch, rc)
    IN  IF r.exc # "none"
        THEN [exc |-> r.exc, kind |-> r.kind,
              command_result |-> r.command_result, verified |-> FALSE]
        ELSE LET v == check_for_run_failures(out)
             IN  [exc |-> v.exc, kind |-> v.kind,
                  command_result |-> r.command_result, verified |-> TRUE]

\* verified: _check_for_run_failures was called
run_try(launch, rc, out) ==
    LET r == scm_runner(launch, rc)
    IN  IF r.exc # "none"
        THEN [exc |-> r.exc, kind |-> r.kind,
              command_result |-> r.command_result, verified |-> FALSE]
        ELSE IF r.command_result.returncode # 0
        THEN [exc |-> "NameError", kind |-> "exit_code",
              command_result |-> r.command_result, verified |-> FALSE]
        ELSE LET v == check_for_run_failures(out)
             IN  [exc |-> v.exc, kind |-> v.kind,
                  command_result |-> r.command_result, verified |-> TRUE]

\* run_openifs_scm lines 171-174: except (PermissionError,
\* FileNotFoundError): pass
relocation_swallowed(e) ==
    FirstClause(e, <<"PermissionError", "FileNotFoundError">>) # 0

\* run_openifs_scm lines 165-174: shutil.move(run_directory,
\* archive_directory); an error the except clause does not name leaves the
\* handler in place of the exception it was handling
relocate_run_directory(mv) ==
    [moved |-> mv = "ok",
     exc   |-> IF mv = "ok" \/ relocation_swallowed(mv) THEN "none" ELSE mv]

\* archive_results: the files are moved in order; a move that raises
\* PermissionError or FileNotFoundError ends the loop with SCMError, any
\* other error of a move leaves the method as it is.
\* failAt = 0: every move works; otherwise the failAt-th move raises err.
\* The list archived holds the targets of the moves that worked.
archive_clauses == <<"PermissionError", "FileNotFoundError">>
archive_kinds == <<"archive_permission", "archive_missing">>

\* archive_results going on to the next file after a move that failed, and
\* raising at the end of the loop
archive_results_skips_failed(failAt, err, st, c) ==
    LET i == FirstClause(err, archive_clauses)
        ks == {k \in 1..Len(archive_files) : k # failAt}
    IN  [moved    |-> {archive_files[k] : k \in ks},
         archived |-> IF failAt = 0
                      THEN [k \in 1..Len(archive_files) |->
                               target_name(archive_files[k], st, c)]
                      ELSE <<>>,
         exc      |-> IF failAt = 0 THEN "none"
                      ELSE IF i = 0 THEN err ELSE "SCMError",
         kind     |-> IF failAt = 0 \/ i = 0 THEN "none" ELSE archive_kinds[i]]

\* archive_results raising the error of the move as it is
archive_results_unwrapped(failAt, err, st, c) ==
    LET n == IF failAt = 0 THEN Len(archive_files) ELSE failAt - 1
    IN  [moved    |-> {archive_files[k] : k \in 1..n},
         archived |-> [k \in 1..n |-> target_name(archive_files[k], st, c)],
         exc      |-> IF failAt = 0 THEN "none" ELSE err,
         kind     |-> "none"]

\* archive_results appending to the list after the loop: the last target only
archive_results_last_only(failAt, err, st, c) ==
    LET n == IF failAt = 0 THEN Len(archive_files) ELSE failAt - 1
        i == FirstClause(err, archive_clauses)
    IN  [moved    |-> {archive_files[k] : k \in 1..n},
         archived |-> IF n = 0 THEN <<>>
                      ELSE <<target_name(archive_files[n], st, c)>>,
         exc      |-> IF failAt = 0 THEN "none"
                      ELSE IF i = 0 THEN err ELSE "SCMError",
         kind     |-> IF failAt = 0 \/ i = 0 THEN "none" ELSE archive_kinds[i]]

archive_results(failAt, err, st, c) ==
    LET n == IF failAt = 0 THEN Len(archive_files) ELSE failAt - 1
        i == FirstClause(err, archive_clauses)
    IN  [moved    |-> {archive_files[k] : k \in 1..n},
         archived |-> [k \in 1..n |-> target_name(archive_files[k], st, c)],
         exc      |-> IF failAt = 0 THEN "none"
                      ELSE IF i = 0 THEN err ELSE "SCMError",
         kind     |-> IF failAt = 0 \/ i = 0 THEN "none" ELSE archive_kinds[i]]

\* run_cell's except clause: except (SCMError, TileRunError)
run_cell_catches(e) == IsInstance(e, "SCMError") \/ IsInstance(e, "TileRunError")


---------------------------------------------------------------------------
(* SCMTileRunner: run_cell, step by step, under the tile's loop over cells *)

RunInit ==
    /\ start_time \in StartTimes
    /\ archive_failed_runs \in BOOLEAN
    /\ ncells \in 1..MaxCells
    /\ cell = 0
    /\ pc = "loop"
    /\ run_directory = "unbound"
    /\ run_successful = "unbound"
    /\ cell_result = "unbound"
    /\ command_result = Unbound
    /\ exc = "none"
    /\ kind = "none"
    /\ logged = "none"
    /\ launched = "none"
    /\ model_output = NoOutput
    /\ staged = "none"
    /\ relocation = "none"
    /\ dumped = FALSE
    /\ dirloc = [c \in 1..ncells |-> "none"]
    /\ archived = [c \in 1..ncells |-> {}]
    /\ results = [c \in 1..ncells |-> "none"]
    /\ output_files = <<>>
    /\ archive_error = "none"
    /\ stages = <<>>

\* the tile's loop calls run_cell for its next cell: fresh locals
TileNextCell ==
    /\ pc = "loop"
    /\ cell < ncells
    /\ cell' = cell + 1
    /\ pc' = "setup"
    /\ run_directory' = "unbound"
    /\ run_successful' = "unbound"
    /\ cell_result' = "unbound"
    /\ command_result' = Unbound
    /\ exc' = "none"
    /\ kind' = "none"
    /\ logged' = "none"
    /\ launched' = "none"
    /\ model_output' = NoOutput
    /\ staged' = "none"
    /\ relocation' = "none"
    /\ dumped' = FALSE
    /\ output_files' = <<>>
    /\ archive_error' = "none"
    /\ stages' = <<>>
    /\ UNCHANGED <<archive_failed_runs, ncells, dirloc, archived, results>>
    /\ UNCHANGED notRunVars

\* run_cell line 92: run_directory = self.setup_openifs_scm(cell)
SetupOpenifsScm ==
    /\ pc = "setup"
    /\ \E outcome \in StageOutcomes :
          LET r == setup_openifs_scm(outcome)
          IN  /\ staged' = outcome
              /\ exc' = r.exc
              /\ kind' = r.kind
              /\ dirloc' = IF r.created THEN [dirloc EXCEPT ![cell] = "work"]
                           ELSE dirloc
              /\ run_directory' = IF r.exc = "none" THEN "bound" ELSE "unbound"
              /\ pc' = IF r.exc = "none" THEN "run" ELSE "except"
    /\ stages' = Append(stages, "stage")
    /\ UNCHANGED <<archive_failed_runs, ncells, cell, run_successful, cell_result,
                   command_result, logged, launched, model_output, relocation,
                   dumped, archived, results, output_files, archive_error>>
    /\ UNCHANGED notRunVars

\* run_cell line 94: self.run_openifs_scm(cell, run_directory), the whole
\* method: the try block, and under except SCMError the dump of stdout and
\* stderr, the relocation of the run directory and the re-raise
RunOpenifsScm ==
    /\ pc = "run"
    /\ \E launch \in LaunchOutcomes, rc \in ExitCodes,
          out \in ModelOutputs, mv \in MoveOutcomes :
          LET ran == launch = "ran"
              r == run_try(launch, rc, IF ran THEN out ELSE NoOutput)
              caught == IsInstance(r.exc, "SCMError")
              relocate == caught /\ archive_failed_runs
              m == IF relocate THEN relocate_run_directory(mv)
                   ELSE [moved |-> FALSE, exc |-> "none"]
          IN  /\ launched' = launch
              /\ model_output' = IF ran THEN out ELSE NoOutput
              /\ command_result' = r.command_result
              /\ exc' = IF m.exc # "none" THEN m.exc ELSE r.exc
              /\ kind' = IF m.exc # "none" THEN "none" ELSE r.kind
              /\ dumped' = (relocate /\ r.command_result.bound)
              /\ relocation' = IF relocate THEN mv ELSE "none"
              /\ dirloc' = IF m.moved
                           THEN [dirloc EXCEPT ![cell] = "failed"]
                           ELSE dirloc
              /\ stages' = IF r.verified
                           THEN stages \o <<"execute", "verify">>
                           ELSE Append(stages, "execute")
              /\ pc' = IF r.exc = "none" THEN "archive" ELSE "except"
    /\ UNCHANGED <<archive_failed_runs, ncells, cell, run_directory,
                   run_successful, cell_result, logged, staged, archived, results,
                   output_files, archive_error>>
    /\ UNCHANGED notRunVars

\* run_cell lines 96-100: archive_results, then the positive CellResult
ArchiveResults ==
    /\ pc = "archive"
    /\ \E failAt \in 0..Len(archive_files), err \in MoveOutcomes \ {"ok"} :
          LET r == archive_results(failAt, err, start_time, CellAt(cell))
          IN  /\ archived' = [archived EXCEPT ![cell] = r.moved]
              /\ archive_error' = IF failAt = 0 THEN "none" ELSE err
              /\ output_files' = IF r.exc = "none" THEN r.archived
                                 ELSE output_files
              /\ exc' = r.exc
              /\ kind' = r.kind
              /\ cell_result' = IF r.exc = "none" THEN "positive" ELSE cell_result
              /\ run_successful' = IF r.exc = "none" THEN "true" ELSE run_successful
              /\ pc' = IF r.exc = "none" THEN "finally" ELSE "except"
    /\ stages' = Append(stages, "archive")
    /\ UNCHANGED <<archive_failed_runs, ncells, cell, run_directory,
                   command_result, logged, launched, model_output, staged,
                   relocation, dumped, dirloc, results>>
    /\ UNCHANGED notRunVars

\* run_cell lines 101-105: except (SCMError, TileRunError)
ExceptClause ==
    /\ pc = "except"
    /\ IF run_cell_catches(exc)
       THEN /\ logged' = kind
            /\ cell_result' = "negative"
            /\ run_successful' = "false"
            /\ exc' = "none"
            /\ kind' = "none"
       ELSE UNCHANGED <<logged, cell_result, run_successful, exc, kind>>
    /\ pc' = "finally"
    /\ UNCHANGED <<archive_failed_runs, ncells, cell, run_directory,
                   command_result, launched, model_output, staged, relocation,
                   dumped, dirloc, archived, results, output_files,
                   archive_error, stages>>
    /\ UNCHANGED notRunVars

\* run_cell lines 106-111: the finally clause. Reading run_successful when
\* it was never assigned raises UnboundLocalError outside the inner try;
\* reading run_directory when it was never assigned raises it inside.
FinallyClause ==
    /\ pc = "finally"
    /\ IF run_successful = "unbound"
       THEN /\ exc' = "UnboundLocalError"
            /\ kind' = "run_successful"
            /\ UNCHANGED dirloc
       ELSE /\ UNCHANGED <<exc, kind>>
            /\ dirloc' = IF /\ run_successful = "true" \/ ~archive_failed_runs
                            /\ run_directory = "bound"
                         THEN [dirloc EXCEPT ![cell] = "none"]
                         ELSE dirloc
    /\ pc' = "return"
    /\ stages' = Append(stages, "cleanup")
    /\ UNCHANGED <<archive_failed_runs, ncells, cell, run_directory,
                   run_successful, cell_result, command_result, logged, launched,
                   model_output, staged, relocation, dumped, archived, results,
                   output_files, archive_error>>
    /\ UNCHANGED notRunVars

\* run_cell line 112: return cell_result; an exception still in flight
\* leaves run_cell instead and ends the tile's loop
ReturnCell ==
    /\ pc = "return"
    /\ IF exc = "none"
       THEN /\ results' = [results EXCEPT ![cell] = cell_result]
            /\ pc' = "loop"
       ELSE /\ results' = [results EXCEPT ![cell] = "raised"]
            /\ pc' = "aborted"
    /\ UNCHANGED <<archive_failed_runs, ncells, cell, run_directory,
                   run_successful, cell_result, command_result, exc, kind, logged,
                   launched, model_output, staged, relocation, dumped, dirloc,
                   archived, output_files, archive_error, stages>>
    /\ UNCHANGED notRunVars


---------------------------------------------------------------------------
(* Post-processing: cells, coordinate templates, datasets *)

\* coordinate templates as load_coordinate_templates returns them: the
\* values of a grid axis, ascending or descending along the index
CoordTemplates(n) ==
    { [i \in 0..(n-1) |-> i + 1], [i \in 0..(n-1) |-> n - i] }

\* A dataset is its grid of columns: a sequence of rows (along y), each a
\* sequence (along x) of the columns' tags [xg, yg, xv, yv]: the cell the
\* column came from and its coordinate values.

\* pp_cell lines 145-150: the cell's dataset, one column, with its scalar
\* coordinates looked up in the templates by the cell's global indices
pp_cell(c, xc, yc) ==
    << << [xg |-> c.x, yg |-> c.y, xv |-> xc[c.x], yv |-> yc[c.y]] >> >>

\* pp_tile lines 188-191: append to the row of the cell's y_global, or
\* open a new row at the end of the OrderedDict
grid_rows_add(gr, c, ds) ==
    IF \E i \in 1..Len(gr) : gr[i].key = c.y
    THEN [i \in 1..Len(gr) |->
            IF gr[i].key = c.y
            THEN [key |-> gr[i].key, row |-> Append(gr[i].row, ds)]
            ELSE gr[i]]
    ELSE Append(gr, [key |-> c.y, row |-> <<ds>>])

\* xr.concat(dss, dim=xname): the datasets side by side, in the order of
\* the argument
RECURSIVE concat_x(_)
concat_x(dss) ==
    IF Len(dss) = 1 THEN dss[1]
    ELSE LET rest == concat_x(Tail(dss))
         IN  [r \in 1..Len(dss[1]) |-> dss[1][r] \o rest[r]]

\* xr.concat(dss, dim=yname): the datasets' rows one after the other, in
\* the order of the argument
RECURSIVE concat_y(_)
concat_y(dss) ==
    IF dss = <<>> THEN <<>> ELSE Head(dss) \o concat_y(Tail(dss))

\* the rows' datasets joined along y instead of x
tile_concat_wrong_dim(gr) ==
    LET rows == [i \in 1..Len(gr) |-> concat_y(gr[i].row)]
    IN  IF Len(gr) > 1 THEN concat_y(rows) ELSE rows[1]

\* pp_tile lines 193-198: each row concatenated along x, then the rows
\* concatenated along y in the order of the OrderedDict (a single row is
\* taken as it is)
tile_concat(gr) ==
    LET rows == [i \in 1..Len(gr) |-> concat_x(gr[i].row)]
    IN  IF Len(gr) > 1 THEN concat_y(rows) ELSE rows[1]

\* pp_tile, the whole function, on the cells in the order given
RECURSIVE pp_tile_rows(_, _, _, _)
pp_tile_rows(cells, xc, yc, gr) ==
    IF cells = <<>> THEN gr
    ELSE pp_tile_rows(Tail(cells), xc, yc,
                      grid_rows_add(gr, Head(cells),
                                    pp_cell(Head(cells), xc, yc)))

pp_tile(cells, xc, yc) == tile_concat(pp_tile_rows(cells, xc, yc, <<>>))

---------------------------------------------------------------------------
(* pp_tile, cell by cell, on a tile whose cells come in any order *)

\* no job: the datetime fields all zero
NoStartTime ==
    [year |-> 0, month |-> 0, day |-> 0, hour |-> 0, minute |-> 0, second |-> 0]

NameIdle ==
    /\ name_cells = <<>>
    /\ name_written = <<>>

TimeIdle ==
    /\ time_in = <<>>
    /\ tmc = "idle"
    /\ time_coord = <<>>
    /\ date_coord = <<>>
    /\ second_coord = <<>>
    /\ time_out = <<>>

TileIdle ==
    /\ tile_nx = 0
    /\ tile_ny = 0
    /\ tpc = "idle"
    /\ remaining = {}
    /\ grid_rows = <<>>
    /\ tile_ds = <<>>
    /\ in_order = TRUE

PPIdleRest ==
    /\ cell_time = "none"
    /\ time_kind = "none"
    /\ delete_cell_files = FALSE
    /\ unreadable = {}
    /\ ppc = "idle"
    /\ pending = {}
    /\ pp_results = <<>>
    /\ pp_exc = "none"
    /\ dataset = <<>>
    /\ rebased = 0
    /\ written = FALSE
    /\ write_outcome = "none"
    /\ deleted = {}
    /\ exit_status = -1

PPIdle ==
    /\ xsize = 0
    /\ ysize = 0
    /\ row_height = 0
    /\ xcoord = <<>>
    /\ ycoord = <<>>
    /\ PPIdleRest

RunIdle ==
    /\ archive_failed_runs = FALSE
    /\ ncells = 0
    /\ cell = 0
    /\ pc = "idle"
    /\ run_directory = "unbound"
    /\ run_successful = "unbound"
    /\ cell_result = "unbound"
    /\ command_result = Unbound
    /\ exc = "none"
    /\ kind = "none"
    /\ logged = "none"
    /\ launched = "none"
    /\ model_output = NoOutput
    /\ staged = "none"
    /\ relocation = "none"
    /\ dumped = FALSE
    /\ dirloc = <<>>
    /\ archived = <<>>
    /\ results = <<>>
    /\ output_files = <<>>
    /\ archive_error = "none"
    /\ stages = <<>>

TileInit ==
    /\ tile_nx \in 1..MaxTileX
    /\ tile_ny \in 1..MaxTileY
    /\ tpc = "loop"
    /\ remaining = Range(RowMajor(tile_nx, 0, tile_ny - 1, 0))
    /\ grid_rows = <<>>
    /\ tile_ds = <<>>
    /\ in_order = TRUE

\* c comes after the cells supplied before it: right of those of its row,
\* and, when it is the first of its row, above all of them
ComesInOrder(c, seen) ==
    /\ \A d \in seen : d.y = c.y => d.x < c.x
    /\ (\A d \in seen : d.y # c.y) => (\A d \in seen : d.y < c.y)

\* pp_tile lines 185-192: one turn of the loop, for the cell c. The order
\* of the turns is the order in which tile.cells() yields the cells: pp_tile
\* takes it from the tile it is handed and does nothing to it.
TileCell(c) ==
    /\ tpc = "loop"
    /\ c \in remaining
    /\ grid_rows' = grid_rows_add(grid_rows, c, pp_cell(c, xcoord, ycoord))
    /\ remaining' = remaining \ {c}
    /\ in_order' = (in_order /\ ComesInOrder(c,
                        Range(RowMajor(tile_nx, 0, tile_ny - 1, 0)) \ remaining))
    /\ UNCHANGED <<tile_nx, tile_ny, tpc, tile_ds>>
    /\ UNCHANGED notTileVars

\* pp_tile lines 193-201: the concatenations, and the return
TileConcat ==
    /\ tpc = "loop"
    /\ remaining = {}
    /\ tile_ds' = tile_concat(grid_rows)
    /\ tpc' = "done"
    /\ UNCHANGED <<tile_nx, tile_ny, remaining, grid_rows, in_order>>
    /\ UNCHANGED notTileVars


---------------------------------------------------------------------------
(* post_process and main *)

\* the row bands of the decomposition: tile t holds the rows
\* t*rh .. min((t+1)*rh, ny) - 1, and the tile ids count the bands from 0
NTiles(ny, rh) == (ny + rh - 1) \div rh
TileIds(ny, rh) == 0..(NTiles(ny, rh) - 1)
TileFirstRow(t, rh) == t * rh
\* the last row taken one too far: the first row of the next band
TileLastRow_inclusive(t, ny, rh) ==
    IF (t + 1) * rh < ny THEN (t + 1) * rh ELSE ny - 1
TileLastRow(t, ny, rh) ==
    IF (t + 1) * rh < ny THEN (t + 1) * rh - 1 ELSE ny - 1
TileCells(t, nx, ny, rh) ==
    RowMajor(nx, TileFirstRow(t, rh), TileLastRow(t, ny, rh), 0)

\* the largest value in a nonempty set of numbers
SetMax(S) == CHOOSE m \in S : \A n \in S : n <= m

\* post_process line 261: key=lambda ds: ds[config.yname].values.max()
tile_key(ds) == SetMax({ds[r][1].yv : r \in 1..Len(ds)})

\* Python's sorted(): stable, ascending by key
RECURSIVE sorted(_)
sorted(dss) ==
    IF dss = <<>> THEN <<>>
    ELSE LET n == Len(dss)
             init == sorted(SubSeq(dss, 1, n - 1))
             last == dss[n]
             k == Cardinality({i \in 1..Len(init) :
                                  tile_key(init[i]) <= tile_key(last)})
         IN  SubSeq(init, 1, k) \o <<last>> \o SubSeq(init, k + 1, Len(init))

\* the concatenation without the sort: the tiles in the order of arrival
grid_concat_unsorted(rs) ==
    concat_y([i \in 1..Len(rs) |-> rs[i].ds])

\* post_process lines 260-262: the tiles sorted by their largest y value
\* and concatenated along y
grid_concat(rs) ==
    concat_y(sorted([i \in 1..Len(rs) |-> rs[i].ds]))

\* the time coordinate of the cells' files as xr.open_dataset decodes it:
\* timedelta64 for the units 'seconds', datetime64 for 'seconds since ...'
TimeKinds == {"timedelta64", "datetime64"}

\* an addition that shifts whatever times it is given
add_base_time_unchecked(k) == [exc |-> "none", kind |-> "datetime64"]

\* post_process line 267: values + base_time, a numpy addition; base_time is
\* a datetime64, and numpy has datetime64 + datetime64 raise TypeError
add_base_time(k) ==
    IF k = "timedelta64"
    THEN [exc |-> "none", kind |-> "datetime64"]
    ELSE [exc |-> "TypeError", kind |-> k]

\* to_netcdf writes the file, or raises
WriteOutcomes == {"ok", "RuntimeError", "OSError"}

PPInit ==
    /\ xsize \in 1..MaxX
    /\ ysize \in 1..MaxY
    /\ row_height \in 1..(ysize + 1)
    /\ xcoord \in CoordTemplates(xsize)
    /\ ycoord \in CoordTemplates(ysize)
    /\ delete_cell_files \in BOOLEAN
    /\ cell_time \in TimeKinds
    /\ time_kind = "none"
    /\ unreadable \in {u \in SUBSET Range(RowMajor(xsize, 0, ysize - 1, 0)) :
                          \/ Cardinality(u) <= MaxUnreadable
                          \/ u = Range(RowMajor(xsize, 0, ysize - 1, 0))}
    /\ ppc = "start"
    /\ pending = {}
    /\ pp_results = <<>>
    /\ pp_exc = "none"
    /\ dataset = <<>>
    /\ rebased = 0
    /\ written = FALSE
    /\ write_outcome = "none"
    /\ deleted = {}
    /\ exit_status = -1

\* post_process lines 237-257: the tiles are handed to the pool
Dispatch ==
    /\ ppc = "start"
    /\ pending' = TileIds(ysize, row_height)
    /\ ppc' = "map"
    /\ UNCHANGED <<xsize, ysize, row_height, xcoord, ycoord, delete_cell_files,
                   unreadable, pp_results, pp_exc, dataset, rebased, written,
                   write_outcome, deleted, exit_status>>
    /\ UNCHANGED <<time_kind, cell_time, notPPVars>>

\* a worker runs pp_tile on tile t: pp_cell raises Error on the first cell
\* whose files cannot be read, otherwise the tile's dataset and the cells'
\* directories come back. The order of the results is left open: map
\* returns them in the order of tiles, which the decomposition decides,
\* and the workers finish in any order.
WorkerTile(t) ==
    /\ ppc = "map"
    /\ t \in pending
    /\ LET cells == TileCells(t, xsize, ysize, row_height)
           ok == Range(cells) \cap unreadable = {}
       IN  pp_results' = Append(pp_results,
               [id |-> t, ok |-> ok,
                ds |-> IF ok THEN pp_tile(cells, xcoord, ycoord) ELSE <<>>,
                filepaths |-> IF ok THEN cells ELSE <<>>])
    /\ pending' = pending \ {t}
    /\ UNCHANGED <<xsize, ysize, row_height, xcoord, ycoord, delete_cell_files,
                   unreadable, ppc, pp_exc, dataset, rebased, written,
                   write_outcome, deleted, exit_status>>
    /\ UNCHANGED <<time_kind, cell_time, notPPVars>>

\* a map that returns while tiles are still with the workers
pool_joined_early(p) == TRUE

\* process_pool.map, post_process lines 255-257, blocks until every tile
\* handed to the pool has come back
pool_joined(p) == p = {}

\* process_pool.map, post_process lines 255-257: the list of the workers'
\* results, or the exception a worker raised
pool_map(rs) ==
    IF \E i \in 1..Len(rs) : ~rs[i].ok
    THEN [exc |-> "Error", results |-> <<>>]
    ELSE [exc |-> "none", results |-> rs]

\* post_process lines 255-268: map returns (re-raising a worker's Error),
\* the tiles are sorted and concatenated, the time coordinate is rebased
Assemble ==
    /\ ppc = "map"
    /\ pool_joined(pending)
    /\ LET m == pool_map(pp_results)
       IN  IF m.exc # "none"
           THEN /\ pp_exc' = m.exc
                /\ ppc' = "exit"
                /\ UNCHANGED <<dataset, rebased, time_kind>>
           ELSE LET a == add_base_time(cell_time)
                IN  /\ dataset' = grid_concat(m.results)
                    /\ time_kind' = a.kind
                    /\ rebased' = IF a.exc = "none" THEN rebased + 1
                                  ELSE rebased
                    /\ pp_exc' = a.exc
                    /\ ppc' = IF a.exc = "none" THEN "write" ELSE "exit"
    /\ UNCHANGED <<xsize, ysize, row_height, xcoord, ycoord, delete_cell_files,
                   unreadable, pending, pp_results, written, write_outcome,
                   deleted, exit_status>>
    /\ UNCHANGED <<cell_time, notPPVars>>

\* post_process lines 285-288: to_netcdf under except RuntimeError, whose
\* handler builds an Error and does not raise it
post_process_write(outcome) ==
    IF outcome = "ok" THEN "none"
    ELSE IF IsInstance(outcome, "RuntimeError") THEN "none"
    ELSE outcome

Write ==
    /\ ppc = "write"
    /\ \E outcome \in WriteOutcomes :
          /\ write_outcome' = outcome
          /\ written' = (outcome = "ok")
          /\ pp_exc' = post_process_write(outcome)
          /\ ppc' = IF post_process_write(outcome) = "none" THEN "delete" ELSE "exit"
    /\ UNCHANGED <<xsize, ysize, row_height, xcoord, ycoord, delete_cell_files,
                   unreadable, pending, pp_results, dataset, rebased, deleted,
                   exit_status>>
    /\ UNCHANGED <<time_kind, cell_time, notPPVars>>

\* post_process lines 289-294: the per-cell directories are removed
Delete ==
    /\ ppc = "delete"
    /\ deleted' = IF delete_cell_files
                  THEN UNION {Range(pp_results[i].filepaths) :
                                 i \in 1..Len(pp_results)}
                  ELSE deleted
    /\ ppc' = "exit"
    /\ UNCHANGED <<xsize, ysize, row_height, xcoord, ycoord, delete_cell_files,
                   unreadable, pending, pp_results, pp_exc, dataset, rebased,
                   written, write_outcome, exit_status>>
    /\ UNCHANGED <<time_kind, cell_time, notPPVars>>

\* a main that reports success whatever was raised
main_status_swallow(e) == 0

\* main lines 320-330: 1 under except Error, 0 otherwise; any other
\* exception leaves main, and the interpreter prints the traceback and
\* exits with status 1
main_status(e) ==
    IF e = "none" THEN 0
    ELSE IF IsInstance(e, "Error") THEN 1
    ELSE 1

MainReturn ==
    /\ ppc = "exit"
    /\ exit_status' = main_status(pp_exc)
    /\ ppc' = "done"
    /\ UNCHANGED <<xsize, ysize, row_height, xcoord, ycoord, delete_cell_files,
                   unreadable, pending, pp_results, pp_exc, dataset, rebased,
                   written, write_outcome, deleted>>
    /\ UNCHANGED <<time_kind, cell_time, notPPVars>>

---------------------------------------------------------------------------
(* The time coordinate: _time_to_ifs in the runner, the rebase in           *)
(* post_process. Times are counted from the midnight of the reference date: *)
(* numpy's datetime arithmetic has no leap seconds, and a midnight is an    *)
(* even number of seconds after the epoch, so the rounding is the same.     *)

\* (reference_time - reference_date).seconds
SecondOfDay(st) == st.hour * 3600 + st.minute * 60 + st.second

\* int(reference_date.strftime('%Y%m%d'))
DateInteger(st) == st.year * 10000 + st.month * 100 + st.day

\* the whole seconds of a time of t ticks, the fraction dropped
np_truncate(t) == t \div TicksPerSecond

\* np.round(time_int / 1.e9) on a time of t ticks: the nearest whole second,
\* a half going to the even one
np_round(t) ==
    LET q == t \div TicksPerSecond
        f == t % TicksPerSecond
    IN  IF 2 * f < TicksPerSecond THEN q
        ELSE IF 2 * f > TicksPerSecond THEN q + 1
        ELSE IF q % 2 = 0 THEN q ELSE q + 1

\* _time_to_ifs lines 323-345: the three coordinates. The 'time' values are
\* the rounded times less the first of them.
time_to_ifs(times, st) ==
    LET time_rs == [i \in 1..Len(times) |-> np_round(times[i])]
    IN  [time   |-> [i \in 1..Len(times) |-> time_rs[i] - time_rs[1]],
         date   |-> [i \in 1..Len(times) |-> DateInteger(st)],
         second |-> [i \in 1..Len(times) |-> SecondOfDay(st)]]

\* post_process lines 264-265: np.datetime64 of start_time to the second
base_time(st) == SecondOfDay(st)

\* post_process line 267: the time values plus base_time
rebase_time(values, st) ==
    [i \in 1..Len(values) |-> values[i] + base_time(st)]

\* the time coordinates of the forcing: increasing times around the
\* reference time
TimeAxes(st) ==
    LET T == {SecondOfDay(st) * TicksPerSecond + o : o \in (0 - MaxEarly)..MaxLate}
    IN  {ts \in UNION {[1..n -> T] : n \in 1..MaxTimes} :
            \A i, j \in 1..Len(ts) : i < j => ts[i] < ts[j]}

TimeInit ==
    /\ start_time \in StartTimes
    /\ time_in \in TimeAxes(start_time)
    /\ tmc = "input"
    /\ time_coord = <<>>
    /\ date_coord = <<>>
    /\ second_coord = <<>>
    /\ time_out = <<>>

\* SCMTileRunner.__init__ line 83: the forcing's time coordinate is replaced
TimeToIfs ==
    /\ tmc = "input"
    /\ LET c == time_to_ifs(time_in, start_time)
       IN  /\ time_coord' = c.time
           /\ date_coord' = c.date
           /\ second_coord' = c.second
    /\ tmc' = "ifs"
    /\ UNCHANGED <<time_in, time_out>>
    /\ UNCHANGED notTimeVars

\* post_process lines 264-268, on the relative times the model was given
RebaseTime ==
    /\ tmc = "ifs"
    /\ time_out' = rebase_time(time_coord, start_time)
    /\ tmc' = "rebased"
    /\ UNCHANGED <<time_in, time_coord, date_coord, second_coord>>
    /\ UNCHANGED notTimeVars

---------------------------------------------------------------------------
(* The paths two cells of a job write in output_directory: the archived     *)
(* output files of a successful run, the directory of a failed one          *)

\* global indices of cells: small ones, ones that share digits, and ones as
\* wide as and wider than the four digits of the format
NameCoords == {0, 1, 10, 11, 9999, 10000}

NameInit ==
    /\ start_time \in StartTimes
    /\ name_cells \in {cs \in [1..2 -> [x : NameCoords, y : NameCoords]] :
                          cs[1] # cs[2]}
    /\ name_written = [i \in 1..2 |-> {}]

\* archive_results lines 197-216 for the i-th cell: every move succeeds
NameArchived(i) ==
    /\ name_written[i] = {}
    /\ name_written' =
          [name_written EXCEPT ![i] =
              {target_name(af, start_time, name_cells[i]) :
                  af \in Range(archive_files)}]
    /\ UNCHANGED name_cells
    /\ UNCHANGED notNameVars

\* run_openifs_scm lines 165-172 for the i-th cell: the run directory is
\* moved to the failed-run archive
NameFailed(i) ==
    /\ name_written[i] = {}
    /\ name_written' =
          [name_written EXCEPT ![i] = {archive_name(start_time, name_cells[i])}]
    /\ UNCHANGED name_cells
    /\ UNCHANGED notNameVars

---------------------------------------------------------------------------
(* u_collect.py: the status of one job of a job array, read from its logs   *)

\* JobInfo.date_from_job_id, in minutes since 2009-04-06 00:00: the
\* reference time 01:00 and a quarter of an hour for each job
date_from_job_id(job_id) == 60 + (15 * (job_id - 1))

\* JobInfo(name, jid): the three stage flags default to None
JobInfo(j) ==
    [id |-> j, date |-> date_from_job_id(j),
     run |-> "None", pp_generate |-> "None", pp_cleanup |-> "None"]

\* what a log file can be: not there, there without or with a line that
\* starts with 'Successfully completed.', there and not readable
LogStates == {"absent", "incomplete", "complete", "unreadable"}

\* os.path.exists of a log
log_exists(log) == log # "absent"

\* lsb_run_complete: open raises IOError on a log that cannot be read, and
\* the IOError is raised again as Error
lsb_run_complete(log) ==
    [exc       |-> IF log \in {"absent", "unreadable"} THEN "Error" ELSE "none",
     completed |-> log = "complete"]

\* from_name_and_id from the pp log on (lines 52-69), for a job_info whose
\* run flag is set
pp_stage(info, pl, outs) ==
    IF ~log_exists(pl)
    THEN [exc |-> "none", ret |-> "JobInfo", info |-> info]
    ELSE IF lsb_run_complete(pl).exc # "none"
    THEN [exc |-> lsb_run_complete(pl).exc, ret |-> "None", info |-> info]
    ELSE IF ~lsb_run_complete(pl).completed
    THEN IF info.date \in outs
         THEN [exc |-> "none", ret |-> "JobInfo",
               info |-> [info EXCEPT !.pp_generate = "True",
                                     !.pp_cleanup = "False"]]
         ELSE [exc |-> "none", ret |-> "JobInfo",
               info |-> [info EXCEPT !.pp_generate = "False"]]
    ELSE [exc |-> "none", ret |-> "JobInfo",
          info |-> [info EXCEPT !.pp_generate = "True",
                                !.pp_cleanup = "True"]]

\* from_name_and_id going on to the pp log after a run that did not complete
from_name_and_id_no_return(j, only, rl, pl, outs) ==
    IF only
    THEN pp_stage([JobInfo(j) EXCEPT !.run = "True"], pl, outs)
    ELSE IF ~log_exists(rl)
    THEN [exc |-> "none", ret |-> "None", info |-> JobInfo(j)]
    ELSE IF lsb_run_complete(rl).exc # "none"
    THEN [exc |-> lsb_run_complete(rl).exc, ret |-> "None", info |-> JobInfo(j)]
    ELSE IF ~lsb_run_complete(rl).completed
    THEN pp_stage([JobInfo(j) EXCEPT !.run = "False"], pl, outs)
    ELSE pp_stage([JobInfo(j) EXCEPT !.run = "True"], pl, outs)

\* JobInfo.from_name_and_id: what is returned (ret: "None" or "JobInfo",
\* info: the JobInfo) or raised (exc)
from_name_and_id(j, only, rl, pl, outs) ==
    IF only
    THEN pp_stage([JobInfo(j) EXCEPT !.run = "True"], pl, outs)
    ELSE IF ~log_exists(rl)
    THEN [exc |-> "none", ret |-> "None", info |-> JobInfo(j)]
    ELSE IF lsb_run_complete(rl).exc # "none"
    THEN [exc |-> lsb_run_complete(rl).exc, ret |-> "None", info |-> JobInfo(j)]
    ELSE IF ~lsb_run_complete(rl).completed
    THEN [exc |-> "none", ret |-> "JobInfo",
          info |-> [JobInfo(j) EXCEPT !.run = "False"]]
    ELSE pp_stage([JobInfo(j) EXCEPT !.run = "True"], pl, outs)

JobIdle ==
    /\ jid = 0
    /\ pp_only = FALSE
    /\ run_log = "absent"
    /\ pp_log = "absent"
    /\ scm_out = {}
    /\ jpc = "idle"
    /\ job_ret = "None"
    /\ job_info = JobInfo(0)
    /\ job_exc = "none"

JobInit ==
    /\ jid \in 1..MaxJobId
    /\ pp_only \in BOOLEAN
    /\ run_log \in LogStates
    /\ pp_log \in LogStates
    /\ scm_out \in SUBSET {date_from_job_id(j) : j \in 1..MaxJobId}
    /\ jpc = "call"
    /\ job_ret = "None"
    /\ job_info = JobInfo(jid)
    /\ job_exc = "none"

\* collect_jobs' call JobInfo.from_name_and_id(job_name, job_id, pp_only)
FromNameAndId ==
    /\ jpc = "call"
    /\ LET r == from_name_and_id(jid, pp_only, run_log, pp_log, scm_out)
       IN  /\ job_ret' = r.ret
           /\ job_info' = r.info
           /\ job_exc' = r.exc
    /\ jpc' = "done"
    /\ UNCHANGED <<jid, pp_only, run_log, pp_log, scm_out>>
    /\ UNCHANGED notJobVars

---------------------------------------------------------------------------
(* u_collect.py: the job array specification                                *)

\* the characters a specification is made of here
SpecChars == {"1", "2", ",", "-"}

\* str.split(sep): the pieces between the occurrences of sep, empty ones
\* included
RECURSIVE split(_, _)
split(str, sep) ==
    IF \A i \in 1..Len(str) : str[i] # sep
    THEN <<str>>
    ELSE LET i == CHOOSE k \in 1..Len(str) :
                     /\ str[k] = sep
                     /\ \A m \in 1..(k-1) : str[m] # sep
         IN  <<SubSeq(str, 1, i - 1)>> \o split(SubSeq(str, i + 1, Len(str)), sep)

\* value of a decimal digit
DigitValue(ch) == (CHOOSE d \in 1..Len(DigitChars) : DigitChars[d] = ch) - 1

IsNumeral(str) ==
    /\ str # <<>>
    /\ \A i \in 1..Len(str) : str[i] \in Range(DigitChars)

RECURSIVE NumeralValue(_)
NumeralValue(str) ==
    IF str = <<>> THEN 0
    ELSE (10 * NumeralValue(SubSeq(str, 1, Len(str) - 1)))
             + DigitValue(str[Len(str)])

\* int(x) of a string of digits, commas and dashes: a ValueError unless x
\* is a nonempty string of digits
int(str) ==
    IF IsNumeral(str) THEN [exc |-> "none", value |-> NumeralValue(str)]
    ELSE [exc |-> "ValueError", value |-> 0]

\* list(range(items[0], items[1] + 1))
range_list(a, b) == [i \in 1..(IF b >= a THEN (b - a) + 1 ELSE 0) |-> a + i - 1]

\* the body of parse_array_spec's loop for one sub_spec: the list of its
\* ids, or the exception raised
sub_spec_result(sub_spec) ==
    LET parts == split(sub_spec, "-")
    IN  IF \E i \in 1..Len(parts) : int(parts[i]).exc # "none"
        THEN [exc |-> "ValueError", result |-> <<>>]
        ELSE LET items == [i \in 1..Len(parts) |-> int(parts[i]).value]
             IN  IF Len(items) = 1
                 THEN [exc |-> "none", result |-> <<items[1]>>]
                 ELSE IF Len(items) = 2
                 THEN [exc |-> "none", result |-> range_list(items[1], items[2])]
                 ELSE [exc |-> "Usage", result |-> <<>>]

\* sorted(set(...)) of integers: the elements of the set in ascending order
sorted_set(S) ==
    [i \in 1..Cardinality(S) |->
        CHOOSE x \in S : Cardinality({y \in S : y < x}) = i - 1]

\* parse_array_spec: the loop stops at the first sub_spec that raises
parse_array_spec(spec) ==
    LET subs == split(spec, ",")
        bad  == {k \in 1..Len(subs) : sub_spec_result(subs[k]).exc # "none"}
    IN  IF bad # {}
        THEN [exc |-> sub_spec_result(
                          subs[CHOOSE k \in bad : \A m \in bad : k <= m]).exc,
              job_ids |-> <<>>]
        ELSE [exc |-> "none",
              job_ids |-> sorted_set(UNION {Range(sub_spec_result(subs[k]).result) :
                                               k \in 1..Len(subs)})]

\* no run of more than MaxDigits digits
DigitsBounded(str) ==
    \A i \in 1..(Len(str) - MaxDigits) :
        \E k \in i..(i + MaxDigits) : str[k] \notin Range(DigitChars)

ArraySpecs ==
    {str \in UNION {[1..n -> SpecChars] : n \in 0..MaxSpecLen} : DigitsBounded(str)}

ArrayIdle ==
    /\ array_spec = <<>>
    /\ apc = "idle"
    /\ job_ids = <<>>
    /\ array_exc = "none"

CollectIdle == JobIdle /\ ArrayIdle

ArrayInit ==
    /\ array_spec \in ArraySpecs
    /\ apc = "call"
    /\ job_ids = <<>>
    /\ array_exc = "none"

\* main's call parse_array_spec(argns.array_spec)
ParseArraySpec ==
    /\ apc = "call"
    /\ LET r == parse_array_spec(array_spec)
       IN  /\ job_ids' = r.job_ids
           /\ array_exc' = r.exc
    /\ apc' = "done"
    /\ UNCHANGED array_spec
    /\ UNCHANGED notArrayVars

---------------------------------------------------------------------------
(* The specifications *)

\* the runner over one tile
Init == RunInit /\ TileIdle /\ PPIdle /\ TimeIdle /\ NameIdle /\ CollectIdle

Next ==
    \/ TileNextCell
    \/ SetupOpenifsScm
    \/ RunOpenifsScm
    \/ ArchiveResults
    \/ ExceptClause
    \/ FinallyClause
    \/ ReturnCell

Spec == Init /\ [][Next]_vars

\* pp_tile on one tile
TileNext ==
    \/ \E c \in remaining : TileCell(c)
    \/ TileConcat

\* pp_tile is handed the coordinate templates of a grid as large as the tile
TileSpecInit ==
    /\ start_time = NoStartTime
    /\ TimeIdle
    /\ NameIdle
    /\ CollectIdle
    /\ RunIdle
    /\ TileInit
    /\ xsize = tile_nx
    /\ ysize = tile_ny
    /\ row_height = tile_ny
    /\ xcoord \in CoordTemplates(tile_nx)
    /\ ycoord \in CoordTemplates(tile_ny)
    /\ PPIdleRest

SpecTile == TileSpecInit /\ [][TileNext]_vars

\* post_process and main
PPNext ==
    \/ Dispatch
    \/ \E t \in pending : WorkerTile(t)
    \/ Assemble
    \/ Write
    \/ Delete
    \/ MainReturn

PPSpecInit ==
    /\ start_time = NoStartTime
    /\ TimeIdle /\ NameIdle /\ CollectIdle /\ RunIdle /\ TileIdle /\ PPInit

SpecPP == PPSpecInit /\ [][PPNext]_vars

\* the time coordinate from the forcing to the final grid
TimeNext ==
    \/ TimeToIfs
    \/ RebaseTime

TimeSpecInit ==
    RunIdle /\ TileIdle /\ PPIdle /\ NameIdle /\ CollectIdle /\ TimeInit

SpecTime == TimeSpecInit /\ [][TimeNext]_vars

\* the paths of two cells
NameNext ==
    \/ \E i \in 1..2 : NameArchived(i)
    \/ \E i \in 1..2 : NameFailed(i)

NameSpecInit ==
    RunIdle /\ TileIdle /\ PPIdle /\ TimeIdle /\ CollectIdle /\ NameInit

SpecNames == NameSpecInit /\ [][NameNext]_vars

\* the status of one job
JobNext == FromNameAndId

JobSpecInit ==
    /\ start_time = NoStartTime
    /\ RunIdle /\ TileIdle /\ PPIdle /\ TimeIdle /\ NameIdle /\ ArrayIdle
    /\ JobInit

SpecJob == JobSpecInit /\ [][JobNext]_vars

\* the job array specification
ArrayNext == ParseArraySpec

ArraySpecInit ==
    /\ start_time = NoStartTime
    /\ RunIdle /\ TileIdle /\ PPIdle /\ TimeIdle /\ NameIdle /\ JobIdle
    /\ ArrayInit

SpecArray == ArraySpecInit /\ [][ArrayNext]_vars

---------------------------------------------------------------------------
(* The claims about run_cell (checked under Spec) *)

\* run_cell has ended for the current cell: it returned, or it raised
RunCellEnded == cell > 0 /\ pc \in {"loop", "aborted"}
RunCellReturned == cell > 0 /\ pc = "loop"
\* the tile's loop is over: every cell was run, or run_cell raised
TileEnded == pc = "aborted" \/ (pc = "loop" /\ cell = ncells)
\* the model process exited with status 0 and left the four expected files
ModelSucceeded ==
    /\ launched = "ran"
    /\ command_result.returncode = 0
    /\ \A f \in Range(expected_files) : model_output[f] = "ok"

\* C1: run_cell never raises past its boundary: whenever run_cell has ended
\* for a cell, it has returned a positive or a negative CellResult, whatever
\* failed while staging, executing, verifying or archiving.
C1_RunCellNeverRaises ==
    RunCellEnded => results[cell] \in {"positive", "negative"}

\* C2: once the model was invoked, run_cell returns a positive result only
\* if the model exited with status 0 and the four expected files were there
\* and non-empty, and every other outcome of the invocation ends in a
\* negative result.
C2_PositiveOnlyIfModelSucceeded ==
    (RunCellEnded /\ launched # "none") =>
        /\ results[cell] = "positive" => ModelSucceeded
        /\ ~ModelSucceeded => results[cell] = "negative"

\* the error kind the Execute step owes each of its causes of failure
ExecuteCause ==
    CASE launched = "ran" /\ command_result.returncode # 0 -> "nonzero_exit"
      [] launched = "FileNotFoundError" -> "not_found"
      [] launched = "PermissionError"   -> "not_executable"
      [] launched = "OSError"           -> "launch_failed"
      [] OTHER                          -> "none"

\* C3: a nonzero exit status, an executable that is not found and an OS-level
\* launch failure each end the cell's run as a failure reported with its own
\* error kind; a missing execute permission is not reported as the generic
\* launch failure.
C3_ExecuteFailuresDistinguished ==
    (RunCellEnded /\ ExecuteCause # "none") =>
        /\ results[cell] = "negative"
        /\ logged = ExecuteCause

\* C4: a failure of one cell is that cell's alone: the cell gets a negative
\* result, and when the tile's loop is over the cell after it has been run
\* too.
C4_FailureIsolated ==
    \A c \in Cells :
        results[c] \notin {"none", "positive"} =>
            /\ results[c] = "negative"
            /\ (TileEnded /\ c < ncells) => results[c + 1] # "none"

\* C5: after run_cell returned, if the run succeeded, or if it failed at any
\* stage and failed runs are not archived, the cell's run directory is gone.
C5_CleanupAlways ==
    (RunCellReturned /\ (results[cell] = "positive" \/ ~archive_failed_runs)) =>
        dirloc[cell] # "work"

\* C6: with failed runs archived, a run that fails after staging (executing,
\* verifying or archiving) has its run directory at the failed-run archive
\* path once run_cell returned, unless the relocation itself failed.
C6_FailedRunRelocated ==
    (/\ RunCellReturned
     /\ archive_failed_runs
     /\ staged = "ok"
     /\ results[cell] = "negative"
     /\ relocation \in {"none", "ok"}) =>
        dirloc[cell] = "failed"

\* run_cell entered the stage for the current cell
Entered(stage) == \E i \in 1..Len(stages) : stages[i] = stage
\* whenever it entered the stage b, it had entered the stage a before
EnteredBefore(a, b) ==
    \A j \in 1..Len(stages) :
        stages[j] = b => \E i \in 1..(j - 1) : stages[i] = a

\* C17: the stages of a cell's run come in order: the model is executed only
\* after the staging completed, its outputs are verified only after it
\* returned exit status 0, files are archived only after the verification
\* passed, and the final cleanup step (the finally clause) is the last thing
\* run_cell enters on every path, whichever stage failed.
C17_StageOrder ==
    /\ Entered("execute") => EnteredBefore("stage", "execute") /\ staged = "ok"
    /\ Entered("verify") =>
          /\ EnteredBefore("execute", "verify")
          /\ launched = "ran"
          /\ command_result.returncode = 0
    /\ Entered("archive") => EnteredBefore("verify", "archive") /\ ModelSucceeded
    /\ RunCellEnded => stages # <<>> /\ stages[Len(stages)] = "cleanup"
    /\ \A i, j \in 1..Len(stages) : stages[i] = stages[j] => i = j

\* C17 witness: a second cell went through every stage after the first
\* cell's run had failed
C17_Witness ==
    /\ RunCellEnded
    /\ cell = 2
    /\ results[1] = "negative"
    /\ stages = <<"stage", "execute", "verify", "archive", "cleanup">>

\* the string sub occurs in the string str
Contains(str, sub) ==
    \E i \in 0..(Len(str) - Len(sub)) : SubSeq(str, i + 1, i + Len(sub)) = sub

\* the paths in output_directory of the files moved for the current cell
ArchivedPaths ==
    {target_name(f, start_time, CellAt(cell)) : f \in archived[cell]}

\* every path of the list names the job's timestamp and the cell, and the
\* list is, without repetition, the paths of the files that were moved
ListsArchivedPaths ==
    /\ Range(output_files) = ArchivedPaths
    /\ Len(output_files) = Cardinality(ArchivedPaths)
    /\ \A i \in 1..Len(output_files) :
          /\ Contains(output_files[i], date_id(start_time))
          /\ Contains(output_files[i], cell_id(CellAt(cell)))

\* C18: on a successful run the Archive step has moved every file of the set
\* the Verify step checks to the output location, under a name with the
\* job's timestamp and the cell id, and the positive result lists exactly
\* the archived paths.
C18_ArchivesEveryVerifiedFile ==
    (RunCellEnded /\ results[cell] = "positive") =>
        /\ archived[cell] = Range(expected_files)
        /\ ListsArchivedPaths

\* C18, amended: on a successful run the Archive step has moved the three
\* files diagvar.nc, diagvar2.nc and progvar.nc (the files the Verify step
\* checks, except onecol.r) to the output location, under a name with the
\* job's timestamp and the cell id, and the positive result lists exactly
\* the archived paths, in that order.
C18_ArchivesOutputFiles ==
    (RunCellEnded /\ results[cell] = "positive") =>
        /\ archived[cell] = {"diagvar.nc", "diagvar2.nc", "progvar.nc"}
        /\ archived[cell] = Range(expected_files) \ {"onecol.r"}
        /\ ListsArchivedPaths
        /\ output_files =
              [i \in 1..Len(archive_files) |->
                  target_name(archive_files[i], start_time, CellAt(cell))]

\* C18 witness: the second cell of a tile ended with a positive result
\* listing three paths
C18_Witness ==
    /\ RunCellEnded
    /\ cell = 2
    /\ results[cell] = "positive"
    /\ Len(output_files) = 3
    /\ ModelSucceeded

\* C19: a permission-denied or missing-destination error while archiving
\* any of the output files makes the cell's run a failure: run_cell returns
\* a negative result, reported as an archive error, although the model
\* exited with status 0 and the verification passed.
C19_ArchiveErrorIsFailure ==
    (RunCellEnded /\ archive_error \in {"PermissionError", "FileNotFoundError"}) =>
        /\ results[cell] = "negative"
        /\ logged = (IF archive_error = "PermissionError"
                     THEN "archive_permission" ELSE "archive_missing")
        /\ output_files = <<>>
        /\ ModelSucceeded

\* C19 witness: the move of the last output file was denied after the
\* others had been moved, and run_cell has returned
C19_Witness ==
    /\ RunCellEnded
    /\ archive_error = "PermissionError"
    /\ archived[cell] = {"diagvar.nc", "diagvar2.nc"}
    /\ results[cell] = "negative"

\* the Execute or Verify failure that run_cell reports
OriginalFailure ==
    CASE launched = "FileNotFoundError" -> "not_found"
      [] launched \in {"PermissionError", "OSError"} -> "launch_failed"
      [] launched = "ran" /\ command_result.returncode = 0 /\ ~ModelSucceeded
            -> "verify"
      [] OTHER -> "none"

\* C20: a failure while relocating a failed run's directory to the
\* failed-run archive is swallowed: run_cell returns the negative result of
\* the original failure without raising, and the tile's loop goes on.
C20_RelocationFailureSwallowed ==
    (RunCellEnded /\ relocation \notin {"none", "ok"}) =>
        /\ results[cell] = "negative"
        /\ logged = OriginalFailure
        /\ pc = "loop"

\* C24: archiving is all-or-nothing with respect to the reported outcome:
\* whenever run_cell returned a negative result for a cell, none of that
\* cell's output files is in the output location.
C24_ArchiveAllOrNothing ==
    \A c \in Cells : results[c] = "negative" => archived[c] = {}

\* the first n files of archive_files
ArchivePrefix(n) == {archive_files[k] : k \in 1..n}

\* C24, amended: whenever run_cell returned a negative result for a cell,
\* the result lists no path, and the cell's output files in the output
\* location are those moved before the move that failed: none when the run
\* failed before the Archive step or at its first file, otherwise the files
\* before the failing one, which are not moved back.
C24_ArchivedBeforeFailureStay ==
    /\ \A c \in Cells :
          results[c] = "negative" =>
              \E n \in 0..(Len(archive_files) - 1) : archived[c] = ArchivePrefix(n)
    /\ (RunCellEnded /\ results[cell] = "negative") =>
          /\ output_files = <<>>
          /\ ~Entered("archive") => archived[cell] = {}
          /\ archived[cell] # {} =>
                archive_error \in {"PermissionError", "FileNotFoundError"}

\* C24 witness: after a first cell that succeeded, the second move of the
\* second cell's archiving found no destination, and run_cell has returned
\* a negative result with the first file left archived
C24_Witness ==
    /\ RunCellEnded
    /\ cell = 2
    /\ results[1] = "positive"
    /\ results[2] = "negative"
    /\ archive_error = "FileNotFoundError"
    /\ archived[2] = {"diagvar.nc"}

---------------------------------------------------------------------------
(* The claims about pp_tile (checked under SpecTile) *)

\* columns ascend by x_global within each row, rows ascend by y_global
TileOrdered(ds) ==
    /\ \A r \in 1..Len(ds) : \A i, j \in 1..Len(ds[r]) :
          i < j => ds[r][i].xg < ds[r][j].xg
    /\ \A r, q \in 1..Len(ds) : r < q => ds[r][1].yg < ds[q][1].yg

\* C9: in whatever order the cells of a tile are supplied, the assembled tile
\* has its columns in ascending x_global order within each row and its rows
\* in ascending y_global order, and is the tile assembled from the cells in
\* sorted order.
C9_TileOrderIndependent ==
    tpc = "done" =>
        /\ TileOrdered(tile_ds)
        /\ tile_ds = pp_tile(RowMajor(tile_nx, 0, tile_ny - 1, 0), xcoord, ycoord)

---------------------------------------------------------------------------
(* The claims about post_process and main (checked under SpecPP) *)

\* C7: per-cell directories are deleted only after the final grid file was
\* written: if the write failed, none is deleted.
C7_DeleteOnlyAfterWrite == deleted # {} => written

\* C8: main's status is 0 only if the final grid file was written.
C8_ExitZeroOnlyIfWritten == exit_status = 0 => written

\* the largest row-coordinate value in a tile dataset
MaxRowCoord(ds) ==
    CHOOSE v \in {ds[r][c].yv : r \in 1..Len(ds), c \in 1..Len(ds[1])} :
        \A r \in 1..Len(ds), c \in 1..Len(ds[1]) : ds[r][c].yv <= v

\* the tile datasets that came back, arranged by ascending largest row
\* coordinate
PreSortedTiles ==
    LET D == {pp_results[i].ds : i \in 1..Len(pp_results)}
    IN  [k \in 1..Cardinality(D) |->
            CHOOSE d \in D :
               Cardinality({e \in D : MaxRowCoord(e) < MaxRowCoord(d)}) = k - 1]

RECURSIVE JoinRows(_)
JoinRows(dss) == IF dss = <<>> THEN <<>> ELSE Head(dss) \o JoinRows(Tail(dss))

Assembled == ppc \in {"write", "delete", "exit", "done"} /\ dataset # <<>>

\* C10: in whatever order the tile results came back from the workers, the
\* assembled grid is the one obtained from the tiles arranged by ascending
\* largest row-coordinate value.
C10_GridOrderIndependent == Assembled => dataset = JoinRows(PreSortedTiles)

\* C10 witness: a grid was assembled from tiles that came back in an order
\* other than that of their largest row coordinates
C10_Witness ==
    /\ Assembled
    /\ \E i, j \in 1..Len(pp_results) :
          i < j /\ MaxRowCoord(pp_results[i].ds) > MaxRowCoord(pp_results[j].ds)

\* the rows of the grid are numbered by their coordinate values in
\* increasing order
RowCoordIncreasing == \A i, j \in DOMAIN ycoord : i < j => ycoord[i] < ycoord[j]

\* the final grid has the shape of the grid of cells, and the column at row
\* y and column x is the one of the cell (x, y)
RoundTrip ==
    /\ Len(dataset) = ysize
    /\ \A r \in 1..Len(dataset) : Len(dataset[r]) = xsize
    /\ \A y \in 0..(ysize - 1), x \in 0..(xsize - 1) :
          /\ dataset[y + 1][x + 1].xg = x
          /\ dataset[y + 1][x + 1].yg = y

\* C11: after tile assembly and grid assembly the value found in the final
\* grid at row y, column x is the value of the cell (x, y), for every cell,
\* whether the row-coordinate values increase or decrease along the rows.
C11_RoundTripAnyDirection == Assembled => RoundTrip

\* C11, amended: when the row-coordinate values increase with the row index,
\* the value found in the final grid at row y, column x is the value of the
\* cell (x, y), for every cell. (The tiles are ordered by coordinate value:
\* with decreasing row coordinates they come out in reverse.)
C11_RoundTripWhenIncreasing == (Assembled /\ RowCoordIncreasing) => RoundTrip

\* C11 witness: a grid of several rows and columns with increasing row
\* coordinates was assembled from more than one tile, one of them of more
\* than one row
C11_Witness ==
    /\ Assembled
    /\ RowCoordIncreasing
    /\ xsize > 1
    /\ Len(pp_results) > 1
    /\ \E i \in 1..Len(pp_results) : Len(pp_results[i].ds) > 1

\* the cells of the grid
GridCells == {[x |-> x, y |-> y] : x \in 0..(xsize - 1), y \in 0..(ysize - 1)}

\* a / b rounded up
CeilDiv(a, b) == IF a % b = 0 THEN a \div b ELSE a \div b + 1

\* the grid was decomposed and its tiles handed to the pool
Decomposed == ppc \in {"map", "write", "delete", "exit", "done"}

\* C13: for every grid extent and band height the tiles partition the grid:
\* every cell of the grid is in exactly one tile, once, and no tile holds
\* anything else; the tile ids are 0 .. ceil(ysize / row_height) - 1, and a
\* tile of larger id holds rows of larger index.
C13_TilesPartitionGrid ==
    Decomposed =>
        LET ids == TileIds(ysize, row_height)
            cells(t) == TileCells(t, xsize, ysize, row_height)
        IN  /\ ids = 0..(CeilDiv(ysize, row_height) - 1)
            /\ UNION {Range(cells(t)) : t \in ids} = GridCells
            /\ \A t \in ids :
                  /\ cells(t) # <<>>
                  /\ Cardinality(Range(cells(t))) = Len(cells(t))
            /\ \A t, u \in ids :
                  t < u => \A c \in Range(cells(t)), d \in Range(cells(u)) :
                              c.y < d.y

\* C13 witness: a grid of several columns was decomposed into several
\* bands, the last of them shorter than the others
C13_Witness ==
    /\ Decomposed
    /\ xsize > 1
    /\ row_height > 1
    /\ ysize > row_height
    /\ ysize % row_height # 0

\* some cells' output cannot be read, the others' can
PartialFailure == unreadable # {} /\ unreadable # GridCells
\* no cell's output can be read
TotalFailure == GridCells # {} /\ unreadable = GridCells

\* C14: partial success is overall success: when some but not all cells
\* failed, the final grid is assembled from the remaining cells, the grid
\* file is written (unless the write itself fails) and main's status is 0.
C14_PartialSuccessSucceeds ==
    (ppc = "done" /\ PartialFailure) =>
        /\ dataset # <<>>
        /\ write_outcome = "ok" => written
        /\ write_outcome # "OSError" => exit_status = 0

\* C15: when no cell's output can be read, the job ends with a fatal error
\* and a nonzero status, and the final grid file is never written.
C15_TotalFailureIsFatal ==
    TotalFailure =>
        /\ ~written
        /\ write_outcome = "none"
        /\ ppc \in {"exit", "done"} => pp_exc = "Error"
        /\ ppc = "done" => exit_status # 0

\* C15 witness: main ended on a grid of several tiles of which no cell was
\* readable
C15_Witness ==
    /\ ppc = "done"
    /\ TotalFailure
    /\ Len(pp_results) > 1
    /\ \A i \in 1..Len(pp_results) : ~pp_results[i].ok

\* post_process is past process_pool.map
PastMap == ppc \in {"write", "delete", "exit", "done"}

\* C21: no partial grid is produced: the concatenation of the grid and the
\* write of the final file start only after the results of all the tiles
\* handed to the pool have come back; a grid that was concatenated holds
\* every row of every tile.
C21_NoPartialGrid ==
    (PastMap \/ dataset # <<>> \/ write_outcome # "none" \/ written) =>
        /\ pending = {}
        /\ {pp_results[i].id : i \in 1..Len(pp_results)} =
              TileIds(ysize, row_height)
        /\ Len(pp_results) = NTiles(ysize, row_height)
        /\ dataset # <<>> => Len(dataset) = ysize

\* C21 witness: the final file was written for a grid of several tiles
C21_Witness ==
    /\ written
    /\ Len(pp_results) > 1
    /\ Len(dataset) = ysize

\* C23: the rebase of the time coordinate is applied exactly once per
\* assembled grid, after the concatenation of the tiles and before the final
\* write; applied to times that are already absolute it is prevented (it
\* raises, and nothing is written) rather than silently carried out.
C23_RebaseOnce ==
    /\ rebased <= 1
    /\ rebased = 1 => dataset # <<>> /\ time_kind = "datetime64"
    /\ write_outcome # "none" => rebased = 1
    /\ (PastMap /\ pp_exc = "none") => rebased = 1
    /\ cell_time = "datetime64" =>
          /\ rebased = 0
          /\ write_outcome = "none"
          /\ ~written
          /\ dataset # <<>> => pp_exc = "TypeError"
          /\ ppc = "done" => exit_status # 0

\* C23 witness: a grid of cells whose times were already absolute was
\* concatenated, and main ended without having written it
C23_Witness ==
    /\ ppc = "done"
    /\ cell_time = "datetime64"
    /\ Len(dataset) > 1
    /\ time_kind = "datetime64"
    /\ rebased = 0

---------------------------------------------------------------------------
(* The claims about the time coordinate (checked under SpecTime) *)

\* s is a whole second nearest to the time of t ticks
NearestSecond(s, t) ==
    LET d == s * TicksPerSecond - t
    IN  2 * d <= TicksPerSecond /\ 2 * d >= 0 - TicksPerSecond

\* C12: for any time t of the forcing and any reference time, the time of
\* the final grid, rebase(to_relative(t, ref)), is t rounded to the nearest
\* whole second.
C12_TimeRoundTrip ==
    tmc = "rebased" =>
        \A i \in 1..Len(time_in) : NearestSecond(time_out[i], time_in[i])

\* _time_to_ifs has replaced the time coordinate
Converted == tmc \in {"ifs", "rebased"}

\* C22: the conversion to model form yields three coordinates as long as the
\* input time dimension: 'date' is at every time point the reference date
\* written YYYYMMDD, 'second' is at every time point the seconds elapsed
\* since the midnight of the reference date, and 'time' is each time point
\* rounded (not truncated) to the nearest whole second less the rounded first
\* time point, so that its first element is 0.
C22_ModelFormCoordinates ==
    Converted =>
        /\ Len(time_coord) = Len(time_in)
        /\ Len(date_coord) = Len(time_in)
        /\ Len(second_coord) = Len(time_in)
        /\ \A i \in 1..Len(time_in) :
              /\ Decimal(date_coord[i]) =
                    ZeroPad(Decimal(start_time.year), 4)
                        \o ZeroPad(Decimal(start_time.month), 2)
                        \o ZeroPad(Decimal(start_time.day), 2)
              /\ second_coord[i] =
                    (start_time.hour * 60 + start_time.minute) * 60
                        + start_time.second
        /\ time_coord[1] = 0
        /\ \E first \in {time_in[1] \div TicksPerSecond,
                           (time_in[1] \div TicksPerSecond) + 1} :
              /\ NearestSecond(first, time_in[1])
              /\ \A i \in 1..Len(time_in) :
                    NearestSecond(first + time_coord[i], time_in[i])

\* C22 witness: a forcing of several time points was converted, one of them
\* with a fraction above half a second that was rounded up
C22_Witness ==
    /\ Converted
    /\ Len(time_in) > 1
    /\ \E i \in 2..Len(time_in) :
          /\ 2 * (time_in[i] % TicksPerSecond) > TicksPerSecond
          /\ time_coord[i] * TicksPerSecond > time_in[i] - time_in[1]

---------------------------------------------------------------------------
(* The claims about the names of the archived files (checked under SpecNames) *)

\* C16: the names of the archived output files and of the failed-run
\* directory are injective in (x_global, y_global): two distinct cells of a
\* job have different cell ids and never write to the same path.
C16_NamesInjective ==
    \A i, j \in DOMAIN name_cells :
        name_cells[i] # name_cells[j] =>
            /\ cell_id(name_cells[i]) # cell_id(name_cells[j])
            /\ name_written[i] \cap name_written[j] = {}

\* C16 witness: two cells with their indices swapped, one index wider than
\* the four digits of the format, have both written their paths
C16_Witness ==
    /\ name_cells # <<>>
    /\ name_cells[1].x = name_cells[2].y
    /\ name_cells[1].y = name_cells[2].x
    /\ name_cells[1].x >= 10000
    /\ name_written[1] # {}
    /\ name_written[2] # {}

---------------------------------------------------------------------------
(* The claims about JobInfo.from_name_and_id (checked under SpecJob) *)

\* from_name_and_id has returned a JobInfo
ReturnedJobInfo == jpc = "done" /\ job_exc = "none" /\ job_ret = "JobInfo"

\* C25: the stage flags of every JobInfo from_name_and_id returns are
\* monotone along the pipeline: pp_cleanup = True implies pp_generate =
\* True, pp_generate set (True or False) implies run = True, and run = False
\* implies that pp_generate and pp_cleanup are both None.
C25_StageFlagsMonotone ==
    ReturnedJobInfo =>
        /\ job_info.pp_cleanup = "True" => job_info.pp_generate = "True"
        /\ job_info.pp_generate # "None" => job_info.run = "True"
        /\ job_info.run = "False" =>
              /\ job_info.pp_generate = "None"
              /\ job_info.pp_cleanup = "None"

\* C25 witness: the run log has no completion line while the pp log of the
\* same job has one, and the JobInfo returned has run = False
C25_Witness ==
    /\ ReturnedJobInfo
    /\ ~pp_only
    /\ run_log = "incomplete"
    /\ pp_log = "complete"
    /\ job_info.run = "False"

---------------------------------------------------------------------------
(* The claims about parse_array_spec (checked under SpecArray) *)

\* the items of a specification, each the list of its '-'-separated parts
SpecItems(spec) ==
    [k \in 1..Len(split(spec, ",")) |-> split(split(spec, ",")[k], "-")]

\* every part of every item is an id
MadeOfIds(spec) ==
    \A k \in 1..Len(SpecItems(spec)) :
        \A i \in 1..Len(SpecItems(spec)[k]) : IsNumeral(SpecItems(spec)[k][i])

\* the ids an item covers: its id, or a..b inclusive
ItemCovers(item) ==
    IF Len(item) = 1 THEN {NumeralValue(item[1])}
    ELSE {n \in 0..NumeralValue(item[2]) : n >= NumeralValue(item[1])}

StrictlyAscending(seq) == \A i \in 1..(Len(seq) - 1) : seq[i] < seq[i + 1]

\* some item has more than two '-'-separated parts
HasLongItem(spec) ==
    \E k \in 1..Len(SpecItems(spec)) : Len(SpecItems(spec)[k]) > 2

\* C26: for a specification made of comma-separated single ids and ranges
\* a-b, parse_array_spec returns the strictly ascending, duplicate-free list
\* of exactly the ids some item covers (a-b covering a..b inclusive); for
\* an item with more than two '-'-separated parts it raises Usage.
C26_ParseArraySpec ==
    apc = "done" =>
        /\ HasLongItem(array_spec) => array_exc = "Usage"
        /\ (MadeOfIds(array_spec) /\ ~HasLongItem(array_spec)) =>
              /\ array_exc = "none"
              /\ StrictlyAscending(job_ids)
              /\ Range(job_ids) =
                    UNION {ItemCovers(SpecItems(array_spec)[k]) :
                              k \in 1..Len(SpecItems(array_spec))}

===========================================================================
